---- MODULE Spec2Model ----
(***************************************************************************)
(* Model of the video pipeline orchestrator, VideoPipeline.run             *)
(* (youtube-automation/src/pipeline.py), and of the collaborators it       *)
(* drives: content generator, SEO optimizer, thumbnail/audio/video         *)
(* producers, YouTube uploader and e-mail notifier.                        *)
(*                                                                         *)
(* One behaviour is one call of run(topic, upload, send_email).  The       *)
(* position inside run is pc; the dictionary `results` is the variables    *)
(* status, stages, error, end_time, duration_seconds.  Collaborator        *)
(* outcomes (return / raise) are chosen nondeterministically.              *)
(***************************************************************************)
EXTENDS Naturals, Sequences, FiniteSets, TLC

(* ---------------------------------------------------------------------- *)
(* Bounds                                                                  *)
(* ---------------------------------------------------------------------- *)

\* number of distinct failure messages a collaborator may raise with
NumMsgs == 2

\* number of distinct video ids the uploader may return
NumVideoIds == 1

Msgs == {<<"msg", i>> : i \in 1..NumMsgs}

VideoIds == {<<"vid", i>> : i \in 1..NumVideoIds}

\* absent key of a dict / Python None
NoVal == <<"none", 0>>

Topics == {NoVal, <<"topic", 1>>}

(* ---------------------------------------------------------------------- *)
(* Collaborator outcomes and exceptions                                    *)
(* ---------------------------------------------------------------------- *)

\* a call either returns a value or raises an exception with a message
Return(v) == [kind |-> "return", value |-> v, msg |-> NoVal]

Raise(m) == [kind |-> "raise", value |-> NoVal, msg |-> m]

\* outcomes of a collaborator call that returns the payload v or raises
CallOutcomes(v) == {Return(v)} \cup {Raise(m) : m \in Msgs}

\* an exception object: where it was raised and its message
Exc(origin, m) == [origin |-> origin, msg |-> m]

NoExc == [origin |-> "none", msg |-> NoVal]

\* str(e)
str(e) == e.msg

(* ---------------------------------------------------------------------- *)
(* Stage names, in the order run() executes them                           *)
(* ---------------------------------------------------------------------- *)

StageNames ==
  << "content_generation", "seo_optimization", "thumbnail_creation",
     "audio_production", "video_editing", "youtube_upload",
     "email_notification" >>

\* an entry of results['stages']: its key and its value (a dict)
StageEntry(name, st, err, ref) ==
  [name |-> name, status |-> st, error |-> err, ref |-> ref]

\* {'status': 'success', 'data'/'path': ...}
SuccessEntry(name, ref) == StageEntry(name, "success", NoVal, ref)

\* {'status': 'skipped'}
SkippedEntry(name) == StageEntry(name, "skipped", NoVal, NoVal)

\* results['stages'][name] = <the uploader's result dict>
ResultEntry(name, r) == StageEntry(name, r.status, r.error, r.ref)

VARIABLES
  pc,               \* position in run()
  topic,            \* argument topic
  upload,           \* argument upload
  send_email,       \* argument send_email
  status,           \* results['status']
  stages,           \* results['stages'], in insertion order
  error,            \* results['error'], NoVal when the key is absent
  end_time,         \* TRUE when results['end_time'] is set
  duration_seconds, \* TRUE when results['duration_seconds'] is set
  upload_result,    \* local upload_result, NoUpload before stage 6
  uploaderOutcome,  \* what upload_video did: return or raise; NoCall before
  exc,              \* the exception caught by `except Exception as e`
  raisedExc,        \* the exception that left run(), NoExc if none
  returned,         \* the value run() returned: a snapshot of results
  calls,            \* collaborator calls made so far, in order
  email_configured, \* EmailNotifier has server, sender and password set
  successNotifications, \* each send_success_notification call: args, outcome
  errorNotifications,   \* each send_error_notification call: args, outcome
  statusLog,        \* every value assigned to results['status'], in order
  persisted,        \* record written by _save_results, NoRecord if none
  fn_pc,            \* helper called on its own: "none", "call" or "done"
  fn_in,            \* the argument of that helper call
  fn_out            \* the value (or exception) of that helper call

\* the state of a call of run()
runVars ==
  << pc, topic, upload, send_email, status, stages, error, end_time,
     duration_seconds, upload_result, uploaderOutcome, exc, raisedExc,
     returned, calls, email_configured, successNotifications,
     errorNotifications, statusLog, persisted >>

\* the state of a call of one helper function outside run()
fnVars == << fn_pc, fn_in, fn_out >>

vars == << runVars, fnVars >>

\* the uploader's result dictionaries
UploadSuccess(v) == [status |-> "success", error |-> NoVal, ref |-> v]

UploadError(m) == [status |-> "error", error |-> m, ref |-> NoVal]

NoUpload == [status |-> "none", error |-> NoVal, ref |-> NoVal]

NoRecord == [status |-> "none"]

NoCall == [kind |-> "none", value |-> NoVal, msg |-> NoVal]

\* the dictionary `results` as a value
Results ==
  [status |-> status, stages |-> stages, error |-> error,
   end_time |-> end_time, duration_seconds |-> duration_seconds]

Init ==
  /\ pc = "stage1"
  /\ topic \in Topics
  /\ upload \in BOOLEAN
  /\ send_email \in BOOLEAN
  /\ status = "running"
  /\ stages = << >>
  /\ error = NoVal
  /\ end_time = FALSE
  /\ duration_seconds = FALSE
  /\ upload_result = NoUpload
  /\ uploaderOutcome = NoCall
  /\ exc = NoExc
  /\ raisedExc = NoExc
  /\ returned = NoRecord
  /\ calls = << >>
  /\ email_configured \in BOOLEAN
  /\ successNotifications = << >>
  /\ errorNotifications = << >>
  /\ statusLog = << "running" >>
  /\ persisted = NoRecord
  /\ fn_pc = "none"
  /\ fn_in = << >>
  /\ fn_out = << >>

(* ---------------------------------------------------------------------- *)
(* Stages 1-5: fail-fast wrappers                                          *)
(* ---------------------------------------------------------------------- *)

\* index of the first call of outs that raises, 0 when none does
FirstRaise(outs) ==
  IF \E i \in 1..Len(outs) : outs[i].kind = "raise"
    THEN CHOOSE i \in 1..Len(outs) :
           /\ outs[i].kind = "raise"
           /\ \A j \in 1..(i - 1) : outs[j].kind # "raise"
    ELSE 0

\* the calls of a wrapper that are actually made: up to the first raise
MadeCalls(names, outs) ==
  IF FirstRaise(outs) = 0 THEN names ELSE SubSeq(names, 1, FirstRaise(outs))

\* the exception a wrapper re-raises (`except Exception as e: ... raise`)
StageException(names, outs) ==
  IF FirstRaise(outs) = 0
    THEN NoExc
    ELSE Exc(names[FirstRaise(outs)], outs[FirstRaise(outs)].msg)

\* variant of FailFastStage: the wrapper logs the exception and returns
\* None instead of re-raising, so run() carries on with the next stage
FailFastStage_continues(k, names, outs, ref, next) ==
  /\ calls' = calls \o MadeCalls(names, outs)
  /\ stages' = Append(stages, SuccessEntry(StageNames[k],
                  IF StageException(names, outs) = NoExc THEN ref ELSE NoVal))
  /\ pc' = next
  /\ exc' = IF StageException(names, outs) = NoExc
              THEN exc ELSE StageException(names, outs)
  /\ UNCHANGED << fnVars, topic, upload, send_email, status, error, end_time,
                  duration_seconds, upload_result, uploaderOutcome, raisedExc,
                  returned, email_configured, successNotifications,
                  errorNotifications, statusLog, persisted >>

\* variant of FailFastStage: a wrapper whose collaborator raised calls it
\* a second time before giving up
FailFastStage_retries(k, names, outs, ref, next) ==
  /\ calls' = calls \o MadeCalls(names, outs)
                \o (IF StageException(names, outs) = NoExc
                      THEN << >> ELSE MadeCalls(names, outs))
  /\ IF StageException(names, outs) = NoExc
       THEN /\ stages' = Append(stages, SuccessEntry(StageNames[k], ref))
            /\ pc' = next
            /\ exc' = exc
       ELSE /\ stages' = stages
            /\ pc' = "except"
            /\ exc' = StageException(names, outs)
  /\ UNCHANGED << fnVars, topic, upload, send_email, status, error, end_time,
                  duration_seconds, upload_result, uploaderOutcome, raisedExc,
                  returned, email_configured, successNotifications,
                  errorNotifications, statusLog, persisted >>

\* variant of FailFastStage: a failed stage is recorded with status 'error'
\* and run() carries on with the next stage
FailFastStage_records_error(k, names, outs, ref, next) ==
  /\ calls' = calls \o MadeCalls(names, outs)
  /\ stages' = Append(stages,
                  IF StageException(names, outs) = NoExc
                    THEN SuccessEntry(StageNames[k], ref)
                    ELSE StageEntry(StageNames[k], "error",
                                    StageException(names, outs).msg, NoVal))
  /\ pc' = next
  /\ exc' = exc
  /\ UNCHANGED << fnVars, topic, upload, send_email, status, error, end_time,
                  duration_seconds, upload_result, uploaderOutcome, raisedExc,
                  returned, email_configured, successNotifications,
                  errorNotifications, statusLog, persisted >>

\* variant of FailFastStage: a failed stage is recorded with status 'error'
\* before control passes to the except clause
FailFastStage_marks_failed(k, names, outs, ref, next) ==
  /\ calls' = calls \o MadeCalls(names, outs)
  /\ IF StageException(names, outs) = NoExc
       THEN /\ stages' = Append(stages, SuccessEntry(StageNames[k], ref))
            /\ pc' = next
            /\ exc' = exc
       ELSE /\ stages' = Append(stages,
                   StageEntry(StageNames[k], "error",
                              StageException(names, outs).msg, NoVal))
            /\ pc' = "except"
            /\ exc' = StageException(names, outs)
  /\ UNCHANGED << fnVars, topic, upload, send_email, status, error, end_time,
                  duration_seconds, upload_result, uploaderOutcome, raisedExc,
                  returned, email_configured, successNotifications,
                  errorNotifications, statusLog, persisted >>

\* variant of FailFastStage: when only the saving of a generated payload
\* failed, the stage entry is still written before the exception is raised
FailFastStage_keeps_generated(k, names, outs, ref, next) ==
  /\ calls' = calls \o MadeCalls(names, outs)
  /\ IF StageException(names, outs) = NoExc
       THEN /\ stages' = Append(stages, SuccessEntry(StageNames[k], ref))
            /\ pc' = next
            /\ exc' = exc
       ELSE /\ stages' =
                 IF StageException(names, outs).origin
                      \in {"save_script", "save_metadata"}
                   THEN Append(stages, SuccessEntry(StageNames[k], ref))
                   ELSE stages
            /\ pc' = "except"
            /\ exc' = StageException(names, outs)
  /\ UNCHANGED << fnVars, topic, upload, send_email, status, error, end_time,
                  duration_seconds, upload_result, uploaderOutcome, raisedExc,
                  returned, email_configured, successNotifications,
                  errorNotifications, statusLog, persisted >>

\* `x = self._stage(...)` followed by `results['stages'][name] = {...}`
\* inside the try block of run(): a raise skips the assignment and jumps
\* to the except clause
FailFastStage(k, names, outs, ref, next) ==
  /\ calls' = calls \o MadeCalls(names, outs)
  /\ IF StageException(names, outs) = NoExc
       THEN /\ stages' = Append(stages, SuccessEntry(StageNames[k], ref))
            /\ pc' = next
            /\ exc' = exc
       ELSE /\ stages' = stages
            /\ pc' = "except"
            /\ exc' = StageException(names, outs)
  /\ UNCHANGED << fnVars, topic, upload, send_email, status, error, end_time,
                  duration_seconds, upload_result, uploaderOutcome, raisedExc,
                  returned,
                  email_configured, successNotifications,
                  errorNotifications, statusLog, persisted >>

\* Stage 1: generate_script(topic), then save_script(script_data)
Stage1_generate_content ==
  /\ pc = "stage1"
  /\ \E gen \in CallOutcomes(<<"script", 1>>),
        sav \in CallOutcomes(<<"file", 1>>) :
       FailFastStage(1, << "generate_script", "save_script" >>,
                     << gen, sav >>, <<"script", 1>>, "stage2")

\* Stage 2: generate_metadata, generate_thumbnail_text (never raises),
\* save_metadata
Stage2_generate_seo ==
  /\ pc = "stage2"
  /\ \E gen \in CallOutcomes(<<"metadata", 1>>),
        sav \in CallOutcomes(<<"file", 2>>) :
       FailFastStage(2,
                     << "generate_metadata", "generate_thumbnail_text",
                        "save_metadata" >>,
                     << gen, Return(<<"text", 1>>), sav >>,
                     <<"metadata", 1>>, "stage3")

\* Stage 3: create_thumbnail(thumbnail_text, subtitle)
Stage3_create_thumbnail ==
  /\ pc = "stage3"
  /\ \E out \in CallOutcomes(<<"thumbnail", 1>>) :
       FailFastStage(3, << "create_thumbnail" >>, << out >>,
                     <<"thumbnail", 1>>, "stage4")

\* Stage 4: format_script_for_tts, then create_full_audio(text)
Stage4_generate_audio ==
  /\ pc = "stage4"
  /\ \E out \in CallOutcomes(<<"audio", 1>>) :
       FailFastStage(4, << "format_script_for_tts", "create_full_audio" >>,
                     << Return(<<"text", 2>>), out >>,
                     <<"audio", 1>>, "stage5")

\* Stage 5: create_video(audio_path, thumbnail_path, script_data)
Stage5_create_video ==
  /\ pc = "stage5"
  /\ \E out \in CallOutcomes(<<"video", 1>>) :
       FailFastStage(5, << "create_video" >>, << out >>,
                     <<"video", 1>>, "stage6")

(* ---------------------------------------------------------------------- *)
(* Stage 6: YouTubeUploader.upload_video and its fail-soft wrapper         *)
(* ---------------------------------------------------------------------- *)

\* an HttpError raised by the YouTube API client
RaiseHttp(m) == [kind |-> "raise_http", value |-> NoVal, msg |-> m]

\* outcomes of authenticate() and of MediaFileUpload(...)
PlainOutcomes == CallOutcomes(NoVal)

\* outcomes of the resumable videos().insert(...) upload
InsertOutcomes ==
  {Return(v) : v \in VideoIds} \cup {RaiseHttp(m) : m \in Msgs}
    \cup {Raise(m) : m \in Msgs}

\* outcomes of thumbnails().set(...).execute(); Return(NoVal) also stands
\* for "no thumbnail file, upload_thumbnail not called"
ThumbnailOutcomes ==
  {Return(NoVal)} \cup {RaiseHttp(m) : m \in Msgs}
    \cup {Raise(m) : m \in Msgs}

\* upload_thumbnail catches HttpError only and returns None
upload_thumbnail(th) ==
  IF th.kind = "raise_http" THEN Return(NoVal) ELSE th

\* upload_video: authenticate() and MediaFileUpload() run before the try
\* block; everything raised inside the try block becomes an error result
upload_video(auth, media, ins, th) ==
  IF auth.kind = "raise" THEN Raise(auth.msg)
  ELSE IF media.kind = "raise" THEN Raise(media.msg)
  ELSE IF ins.kind # "return" THEN Return(UploadError(ins.msg))
  ELSE IF upload_thumbnail(th).kind # "return"
    THEN Return(UploadError(upload_thumbnail(th).msg))
  ELSE Return(UploadSuccess(ins.value))

\* variant of _upload_to_youtube: an error result of the uploader is
\* raised as an exception, so that run() treats it as a failed stage
_upload_to_youtube_raises_on_error(out) ==
  IF out.kind = "return" /\ out.value.status = "success"
    THEN out
    ELSE Raise(IF out.kind = "return" THEN out.value.error ELSE out.msg)

\* variant of _upload_to_youtube: the except clause re-raises, as the
\* wrappers of stages 1-5 do
_upload_to_youtube_reraises(out) == out

\* _upload_to_youtube: returns the uploader's result, and turns an
\* exception of the uploader into {'status': 'error', 'error': str(e)}
_upload_to_youtube(out) ==
  IF out.kind = "return" THEN out ELSE Return(UploadError(out.msg))

\* variant of ShouldUpload: the upload flag is ignored
ShouldUpload_always(up) == TRUE

\* `if upload:` (line 94)
ShouldUpload(up) == up

\* variant of ShouldNotify: the status of the upload result is not tested
ShouldNotify_ignores_result(se, ur) == se

\* `if send_email and upload_result.get('status') == 'success':` (line 100)
ShouldNotify(se, ur) == se /\ ur.status = "success"

Stage6_upload_to_youtube ==
  /\ pc = "stage6"
  /\ IF ShouldUpload(upload)
       THEN \E auth \in PlainOutcomes, media \in PlainOutcomes,
               ins \in InsertOutcomes, th \in ThumbnailOutcomes :
              LET out == _upload_to_youtube(upload_video(auth, media, ins, th))
              IN  /\ calls' = Append(calls, "upload_video")
                  /\ uploaderOutcome' = upload_video(auth, media, ins, th)
                  /\ IF out.kind = "return"
                       THEN /\ upload_result' = out.value
                            /\ stages' = Append(stages,
                                 ResultEntry(StageNames[6], out.value))
                            /\ pc' = IF ShouldNotify(send_email, out.value)
                                       THEN "stage7" ELSE "complete"
                            /\ exc' = exc
                       ELSE /\ upload_result' = upload_result
                            /\ stages' = stages
                            /\ pc' = "except"
                            /\ exc' = Exc("upload_video", out.msg)
       ELSE /\ stages' = Append(stages, SkippedEntry(StageNames[6]))
            /\ pc' = "complete"
            /\ UNCHANGED << calls, upload_result, uploaderOutcome, exc >>
  /\ UNCHANGED << fnVars, topic, upload, send_email, status, error, end_time,
                  duration_seconds, raisedExc, returned, email_configured,
                  successNotifications, errorNotifications, statusLog,
                  persisted >>

(* ---------------------------------------------------------------------- *)
(* EmailNotifier                                                           *)
(* ---------------------------------------------------------------------- *)

\* outcomes of building the HTML body and of the SMTP session
HtmlOutcomes == CallOutcomes(NoVal)

SmtpOutcomes == CallOutcomes(NoVal)

\* _send_email: False when the configuration is incomplete, otherwise
\* True when the SMTP session succeeds and False when it raises
_send_email(cfg, smtp) == cfg /\ smtp.kind = "return"

\* send_success_notification / send_error_notification: build the HTML
\* (outside any try), then return _send_email(...)
send_notification(html, cfg, smtp) ==
  IF html.kind = "raise" THEN Raise(html.msg)
  ELSE Return(_send_email(cfg, smtp))

(* ---------------------------------------------------------------------- *)
(* Stage 7: success notification                                           *)
(* ---------------------------------------------------------------------- *)

\* variant of _send_notification: no try/except around the notifier
_send_notification_propagates(out) == out

\* _send_notification: calls the notifier and swallows any exception
\* (`except Exception as e: self.logger.warning(...)`), so it returns
\* None whatever the notifier did
_send_notification(out) == Return(NoVal)

\* variant of NotificationArgs: a fresh, empty result is passed instead of
\* the uploader's
NotificationArgs_empty_result(ur, md) == [video_data |-> NoUpload, metadata |-> md]

\* line 102: self._send_notification(upload_result, metadata)
NotificationArgs(ur, md) == [video_data |-> ur, metadata |-> md]

\* variant of NotifyEntry: the entry reports whether the email was delivered
NotifyEntry_reports_delivery(sent) ==
  IF sent.kind = "return" /\ sent.value = TRUE
    THEN SuccessEntry(StageNames[7], NoVal)
    ELSE StageEntry(StageNames[7], "error", NoVal, NoVal)

\* line 103: results['stages']['email_notification'] = {'status': 'success'},
\* whatever send_success_notification returned or raised
NotifyEntry(sent) == SuccessEntry(StageNames[7], NoVal)

Stage7_send_notification ==
  /\ pc = "stage7"
  /\ \E html \in HtmlOutcomes, smtp \in SmtpOutcomes :
       LET sent == send_notification(html, email_configured, smtp)
           out == _send_notification(sent)
       IN  /\ calls' = Append(calls, "send_success_notification")
           /\ successNotifications' = Append(successNotifications,
                [args |-> NotificationArgs(upload_result, <<"metadata", 1>>),
                 outcome |-> sent])
           /\ IF out.kind = "return"
                THEN /\ stages' = Append(stages, NotifyEntry(sent))
                     /\ pc' = "complete"
                     /\ exc' = exc
                ELSE /\ stages' = stages
                     /\ pc' = "except"
                     /\ exc' = Exc("send_success_notification", out.msg)
  /\ UNCHANGED << fnVars, topic, upload, send_email, status, error, end_time,
                  duration_seconds, upload_result, uploaderOutcome, raisedExc,
                  returned,
                  email_configured, errorNotifications, statusLog,
                  persisted >>

(* ---------------------------------------------------------------------- *)
(* Completion, persistence and the except clause of run()                  *)
(* ---------------------------------------------------------------------- *)

\* outcomes of writing the results file
WriteOutcomes == CallOutcomes(NoVal)

\* _save_results: writes the record; a failure of the write is logged and
\* swallowed.  The value is the record found in storage afterwards.
_save_results(rec, w, before) ==
  IF w.kind = "return" THEN rec ELSE before

\* lines 112-114: the fields written when the try block reaches its end
CompletionFields ==
  [status |-> "success", end_time |-> TRUE, duration_seconds |-> TRUE]

\* variant of FailureFields: the except clause forgets results['status']
FailureFields_status_unset(e) ==
  [status |-> "running", error |-> str(e), end_time |-> TRUE]

\* variant of FailureFields: the except clause does not store the message
FailureFields_no_error(e) ==
  [status |-> "error", error |-> NoVal, end_time |-> TRUE]

\* lines 129-131: the fields written by the except clause
FailureFields(e) ==
  [status |-> "error", error |-> str(e), end_time |-> TRUE]

\* lines 108-114, reached after stage 6/7 whatever the upload result was
Complete ==
  /\ pc = "complete"
  /\ status' = CompletionFields.status
  /\ end_time' = CompletionFields.end_time
  /\ duration_seconds' = CompletionFields.duration_seconds
  /\ statusLog' = Append(statusLog, CompletionFields.status)
  /\ pc' = "save"
  /\ UNCHANGED << fnVars, topic, upload, send_email, stages, error, upload_result,
                  uploaderOutcome, exc, raisedExc, returned, calls, email_configured,
                  successNotifications, errorNotifications, persisted >>

\* variant of SaveException: _save_results has no try/except, so a failed
\* write leaves it as an exception
SaveException_propagates(w) ==
  IF w.kind = "raise" THEN Exc("_save_results", w.msg) ELSE NoExc

\* the exception that leaves _save_results when the write did w: none,
\* `except Exception as e: self.logger.warning(...)` (lines 256-257)
SaveException(w) == NoExc

\* line 122: self._save_results(results), inside the try block of run()
SaveResults ==
  /\ pc = "save"
  /\ \E w \in WriteOutcomes :
       /\ persisted' = _save_results(Results, w, persisted)
       /\ IF SaveException(w) = NoExc
            THEN /\ pc' = "return"
                 /\ exc' = exc
            ELSE /\ pc' = "except"
                 /\ exc' = SaveException(w)
  /\ calls' = Append(calls, "_save_results")
  /\ UNCHANGED << fnVars, topic, upload, send_email, status, stages, error,
                  end_time, duration_seconds, upload_result, uploaderOutcome,
                  raisedExc,
                  returned, email_configured, successNotifications,
                  errorNotifications, statusLog >>

\* line 124: return results
ReturnResults ==
  /\ pc = "return"
  /\ returned' = Results
  /\ pc' = "returned"
  /\ UNCHANGED << fnVars, topic, upload, send_email, status, stages, error,
                  end_time, duration_seconds, upload_result, uploaderOutcome, exc,
                  raisedExc,
                  calls, email_configured, successNotifications,
                  errorNotifications, statusLog, persisted >>

\* variant of ShouldNotifyError: the send_email flag is not tested
ShouldNotifyError_always(se) == TRUE

\* `if send_email:` (line 134)
ShouldNotifyError(se) == se

\* lines 126-131: except Exception as e
ExceptRecord ==
  /\ pc = "except"
  /\ status' = FailureFields(exc).status
  /\ error' = FailureFields(exc).error
  /\ end_time' = FailureFields(exc).end_time
  /\ statusLog' = Append(statusLog, FailureFields(exc).status)
  /\ pc' = IF ShouldNotifyError(send_email)
             THEN "error_notify" ELSE "error_save"
  /\ UNCHANGED << fnVars, topic, upload, send_email, stages, duration_seconds,
                  upload_result, uploaderOutcome, exc, raisedExc, returned, calls,
                  email_configured, successNotifications,
                  errorNotifications, persisted >>

\* _get_failed_stage: the first stage, in insertion order, whose entry has
\* status 'error'; 'Unknown' when there is none
\* (the for loop of lines 241-244, from the i-th item on)
RECURSIVE FailedStageFrom(_, _)
FailedStageFrom(stgs, i) ==
  IF i > Len(stgs) THEN "Unknown"
  ELSE IF stgs[i].status = "error" THEN stgs[i].name
  ELSE FailedStageFrom(stgs, i + 1)

\* variant of _get_failed_stage: the loop does not stop at the first match
\* and so reports the last stage with status 'error'
_get_failed_stage_last(stgs) ==
  IF \E i \in 1..Len(stgs) : stgs[i].status = "error"
    THEN stgs[CHOOSE i \in 1..Len(stgs) :
                /\ stgs[i].status = "error"
                /\ \A j \in (i + 1)..Len(stgs) : stgs[j].status # "error"].name
    ELSE "Unknown"

_get_failed_stage(stgs) == FailedStageFrom(stgs, 1)

\* variant of TryErrorNotification: no try/except around the notification
TryErrorNotification_propagates(out) ==
  IF out.kind = "raise"
    THEN Exc("send_error_notification", out.msg) ELSE NoExc

\* lines 135-139: `try: ... except: pass` around the error notification;
\* the value is the exception that escapes the block
TryErrorNotification(out) == NoExc

\* lines 134-139: best-effort error notification
ErrorNotify ==
  /\ pc = "error_notify"
  /\ \E html \in HtmlOutcomes, smtp \in SmtpOutcomes :
       LET sent == send_notification(html, email_configured, smtp)
       IN  /\ errorNotifications' = Append(errorNotifications,
                [error_message |-> str(exc),
                 stage |-> _get_failed_stage(stages), outcome |-> sent])
           /\ IF TryErrorNotification(sent) = NoExc
                THEN /\ pc' = "error_save"
                     /\ raisedExc' = raisedExc
                ELSE /\ pc' = "raised"
                     /\ raisedExc' = TryErrorNotification(sent)
  /\ calls' = Append(calls, "send_error_notification")
  /\ UNCHANGED << fnVars, topic, upload, send_email, status, stages, error,
                  end_time, duration_seconds, upload_result, uploaderOutcome, exc,
                  returned,
                  email_configured, successNotifications, statusLog,
                  persisted >>

\* variant of ErrorSave: the except clause re-raises without saving
ErrorSave_skipped ==
  /\ pc = "error_save"
  /\ pc' = "reraise"
  /\ UNCHANGED << fnVars, topic, upload, send_email, status, stages, error,
                  end_time, duration_seconds, upload_result, uploaderOutcome,
                  exc, raisedExc, returned, calls, email_configured,
                  successNotifications, errorNotifications, statusLog,
                  persisted >>

\* line 141: self._save_results(results), inside the except clause
ErrorSave ==
  /\ pc = "error_save"
  /\ \E w \in WriteOutcomes :
       /\ persisted' = _save_results(Results, w, persisted)
       /\ IF SaveException(w) = NoExc
            THEN /\ pc' = "reraise"
                 /\ raisedExc' = raisedExc
            ELSE /\ pc' = "raised"
                 /\ raisedExc' = SaveException(w)
  /\ calls' = Append(calls, "_save_results")
  /\ UNCHANGED << fnVars, topic, upload, send_email, status, stages, error,
                  end_time, duration_seconds, upload_result, uploaderOutcome, exc,
                  returned, email_configured, successNotifications,
                  errorNotifications, statusLog >>

\* variant of Reraise: the duration is stamped on the error path too, but
\* only after the record was saved
Reraise_stamps_duration ==
  /\ pc = "reraise"
  /\ raisedExc' = exc
  /\ duration_seconds' = TRUE
  /\ pc' = "raised"
  /\ UNCHANGED << fnVars, topic, upload, send_email, status, stages, error,
                  end_time, upload_result, uploaderOutcome, exc, returned,
                  calls, email_configured, successNotifications,
                  errorNotifications, statusLog, persisted >>

\* line 142: raise
Reraise ==
  /\ pc = "reraise"
  /\ raisedExc' = exc
  /\ pc' = "raised"
  /\ UNCHANGED << fnVars, topic, upload, send_email, status, stages, error,
                  end_time, duration_seconds, upload_result, uploaderOutcome, exc,
                  returned,
                  calls, email_configured, successNotifications,
                  errorNotifications, statusLog, persisted >>

Next ==
  \/ Stage1_generate_content
  \/ Stage2_generate_seo
  \/ Stage3_create_thumbnail
  \/ Stage4_generate_audio
  \/ Stage5_create_video
  \/ Stage6_upload_to_youtube
  \/ Stage7_send_notification
  \/ Complete
  \/ SaveResults
  \/ ReturnResults
  \/ ExceptRecord
  \/ ErrorNotify
  \/ ErrorSave
  \/ Reraise

Spec == Init /\ [][Next]_vars

(* ---------------------------------------------------------------------- *)
(* Vocabulary of the properties                                            *)
(* ---------------------------------------------------------------------- *)

\* run() has returned or raised
Terminal == pc \in {"returned", "raised"}

\* positions of run() inside the except clause and after it
InExceptPath == pc \in {"except", "error_notify", "error_save", "reraise",
                        "raised"}

\* positions of run() after the `if upload: ... else: ...` block
AfterStage7 == pc \in {"complete", "save", "return", "returned"}

HasStage(name) == \E i \in 1..Len(stages) : stages[i].name = name

EntryOf(name) == stages[CHOOSE i \in 1..Len(stages) : stages[i].name = name]

\* the stage (1..5) whose wrapper makes the call `origin`, 0 for others
StageOfCall(origin) ==
  CASE origin \in {"generate_script", "save_script"} -> 1
    [] origin \in {"generate_metadata", "generate_thumbnail_text",
                   "save_metadata"} -> 2
    [] origin = "create_thumbnail" -> 3
    [] origin \in {"format_script_for_tts", "create_full_audio"} -> 4
    [] origin = "create_video" -> 5
    [] OTHER -> 0

\* the stage that raised, 0 when no stage has raised
FailedStage == IF exc = NoExc THEN 0 ELSE StageOfCall(exc.origin)

\* the uploader was called and failed: it raised or returned an error result
UploaderFailed ==
  \/ uploaderOutcome.kind = "raise"
  \/ uploaderOutcome.kind = "return" /\ uploaderOutcome.value.status = "error"

\* the failure message of a failed uploader call
UploaderFailureMsg ==
  IF uploaderOutcome.kind = "raise"
    THEN uploaderOutcome.msg ELSE uploaderOutcome.value.error

\* a success notification was attempted and did not deliver
NotifierFailed ==
  \E i \in 1..Len(successNotifications) :
    successNotifications[i].outcome # Return(TRUE)

(* ---------------------------------------------------------------------- *)
(* C1..C10: contract of VideoPipeline.run                                  *)
(* ---------------------------------------------------------------------- *)

\* C1: the status starts as 'running', is assigned exactly once more, to
\* 'success' or 'error', before run returns or raises, and a status that
\* has left 'running' never changes; run never returns a running Run.
C1_StatusTerminalExactlyOnce ==
  /\ [](/\ statusLog[1] = "running"
        /\ status = statusLog[Len(statusLog)]
        /\ Len(statusLog) <= 2
        /\ (Len(statusLog) = 2 => status \in {"success", "error"})
        /\ (Terminal => Len(statusLog) = 2 /\ status # "running")
        /\ (pc = "returned" => returned.status \in {"success", "error"}))
  /\ [][status' # status => status = "running"]_vars

C1_Witness ==
  /\ pc = "raised"
  /\ statusLog = << "running", "error" >>
  /\ upload /\ send_email

\* C2: if stage k (1..5) raises, no entry of stages k+1..7 is ever written,
\* and once the except clause has run the status is 'error' and the error
\* field is that stage's failure message.
C2_FailFastStage ==
  \A k \in 1..5 :
    FailedStage = k =>
      /\ \A i \in 1..Len(stages) :
           \A j \in (k + 1)..7 : stages[i].name # StageNames[j]
      /\ pc # "except" => (status = "error" /\ error = exc.msg)
      /\ InExceptPath

C2_Witness ==
  /\ pc = "raised"
  /\ FailedStage = 3
  /\ Len(stages) = 2
  /\ error = exc.msg

\* C3 as stated: when the exception of a stage 1-5 failure reaches the
\* caller, the Run is marked error with the message, the error notification
\* was attempted (when e-mail is enabled), the Run record is in storage, and
\* the exception is the original one.
C3_Original ==
  (pc = "raised" /\ FailedStage \in 1..5) =>
    /\ status = "error" /\ error = str(exc)
    /\ (send_email => Len(errorNotifications) = 1)
    /\ persisted = Results
    /\ raisedExc = exc

\* C3 amended: as C3, but (c) reads "_save_results has been called on the
\* Run record, as the last call before the raise"; the write itself may
\* have failed silently, so the record need not be in storage.
C3_RaiseAfterRecordNotifySave ==
  (pc = "raised" /\ FailedStage \in 1..5) =>
    /\ status = "error" /\ error = str(exc)
    /\ (send_email =>
          /\ Len(errorNotifications) = 1
          /\ errorNotifications[1].error_message = str(exc))
    /\ (~send_email => errorNotifications = << >>)
    /\ calls # << >> /\ calls[Len(calls)] = "_save_results"
    /\ Cardinality({i \in 1..Len(calls) : calls[i] = "_save_results"}) = 1
    /\ persisted \in {NoRecord, Results}
    /\ raisedExc = exc

C3_Witness ==
  /\ pc = "raised"
  /\ FailedStage = 4
  /\ send_email
  /\ errorNotifications[1].outcome.kind = "raise"
  /\ persisted = NoRecord
  /\ raisedExc = exc

\* C4: with stages 1-5 successful and upload enabled, a failure of the
\* uploader (an error result or an exception) never reaches the except
\* clause or the caller: the youtube_upload entry has status 'error' with
\* the failure message, and run ends by returning the Run.
C4_PublishFailSoft ==
  UploaderFailed =>
    /\ ~InExceptPath
    /\ exc = NoExc /\ raisedExc = NoExc
    /\ HasStage("youtube_upload")
    /\ EntryOf("youtube_upload").status = "error"
    /\ EntryOf("youtube_upload").error = UploaderFailureMsg
    /\ (Terminal => pc = "returned" /\ returned.stages = stages)

C4_Witness ==
  /\ pc = "returned"
  /\ uploaderOutcome.kind = "raise"
  /\ EntryOf("youtube_upload").error = uploaderOutcome.msg

\* C5: if the publish stage fails (its result has status 'error'), the
\* terminal Run has status 'error', its error field is the publish failure
\* message, and the failure is attributed to the publish stage.
C5_PublishFailureIsRunError ==
  (Terminal /\ upload_result.status = "error") =>
    /\ status = "error"
    /\ error = upload_result.error
    /\ _get_failed_stage(stages) = "youtube_upload"

\* C6: in every terminal Run, status 'success' implies that no stage entry
\* has status 'error'.
C6_SuccessMeansNoStageError ==
  (Terminal /\ status = "success") =>
    \A i \in 1..Len(stages) : stages[i].status # "error"

\* C7: if upload is false and stages 1-5 succeed, the publish entry is
\* 'skipped', the uploader is never invoked, no notify entry exists and no
\* success notification is sent, whatever the e-mail flag.
C7_UploadDisabledSkips ==
  ~upload =>
    /\ \A i \in 1..Len(calls) :
         calls[i] \notin {"upload_video", "send_success_notification"}
    /\ successNotifications = << >>
    /\ ~HasStage("email_notification")
    /\ uploaderOutcome = NoCall
    /\ (AfterStage7 =>
          /\ HasStage("youtube_upload")
          /\ EntryOf("youtube_upload") = SkippedEntry("youtube_upload")
          /\ Len(stages) = 6)

C7_Witness ==
  /\ pc = "returned"
  /\ ~upload
  /\ send_email
  /\ EntryOf("youtube_upload").status = "skipped"

\* C8: the notify stage (success notification and email_notification entry)
\* is attempted if and only if upload is enabled, send_email is true and the
\* publish result has status 'success'.
C8_NotifyIffPublished ==
  /\ (Len(successNotifications) > 0 <=> HasStage("email_notification"))
  /\ (Len(successNotifications) > 0 =>
        upload /\ send_email /\ upload_result.status = "success")
  /\ (AfterStage7 /\ upload /\ send_email /\ upload_result.status = "success"
        => Len(successNotifications) = 1)
  /\ (upload_result.status = "error" => pc # "stage7")

C8_Witness ==
  /\ pc = "returned"
  /\ upload /\ send_email
  /\ upload_result.status = "error"
  /\ successNotifications = << >>
  /\ ~HasStage("email_notification")

\* C9: a failure of the success notification (the notifier returns false or
\* raises) never changes the Run's status and never raises to the caller:
\* run returns a Run with status 'success'.
C9_NotifyFailureSwallowed ==
  NotifierFailed =>
    /\ ~InExceptPath
    /\ exc = NoExc /\ raisedExc = NoExc
    /\ status \in {"running", "success"}
    /\ HasStage("email_notification")
    /\ (Terminal => pc = "returned" /\ returned.status = "success")

C9_Witness ==
  /\ pc = "returned"
  /\ Len(successNotifications) = 1
  /\ successNotifications[1].outcome.kind = "raise"
  /\ returned.status = "success"

\* C10: with a topic supplied, upload and e-mail enabled and every
\* collaborator successful, the returned Run has status 'success' and
\* exactly the 7 stage entries, and the success notification was attempted
\* exactly once, with the publish stage's result as its argument.
C10_HappyPath ==
  ( /\ pc = "returned"
    /\ topic # NoVal /\ upload /\ send_email
    /\ ~UploaderFailed
    /\ ~NotifierFailed
    /\ persisted = Results )
  =>
    /\ returned.status = "success"
    /\ Len(returned.stages) = 7
    /\ \A i \in 1..7 : returned.stages[i].name = StageNames[i]
    /\ \A i \in 1..7 : returned.stages[i].status = "success"
    /\ Len(successNotifications) = 1
    /\ successNotifications[1].args.video_data = uploaderOutcome.value
    /\ ResultEntry("youtube_upload", successNotifications[1].args.video_data)
         = returned.stages[6]

C10_Witness ==
  /\ pc = "returned"
  /\ topic # NoVal /\ upload /\ send_email
  /\ Len(stages) = 7
  /\ successNotifications[1].outcome = Return(TRUE)
  /\ persisted = Results

(* ---------------------------------------------------------------------- *)
(* Helper functions called on their own                                    *)
(* ---------------------------------------------------------------------- *)

\* no call of run() is in progress
RunIdle ==
  /\ pc = "idle"
  /\ topic = NoVal
  /\ upload = FALSE
  /\ send_email = FALSE
  /\ status = "running"
  /\ stages = << >>
  /\ error = NoVal
  /\ end_time = FALSE
  /\ duration_seconds = FALSE
  /\ upload_result = NoUpload
  /\ uploaderOutcome = NoCall
  /\ exc = NoExc
  /\ raisedExc = NoExc
  /\ returned = NoRecord
  /\ calls = << >>
  /\ email_configured = FALSE
  /\ successNotifications = << >>
  /\ errorNotifications = << >>
  /\ statusLog = << "running" >>
  /\ persisted = NoRecord

\* longest stages mapping handed to _get_failed_stage on its own
MaxStages == 4

\* the statuses a stage entry can carry
StageStatuses == {"success", "error", "skipped"}

\* the stages mappings of up to MaxStages entries, keyed in execution order
StageMappings ==
  UNION { { [i \in 1..n |-> StageEntry(StageNames[i], st[i], NoVal, NoVal)] :
              st \in [1..n -> StageStatuses] } : n \in 0..MaxStages }

InitGetFailedStage ==
  /\ RunIdle
  /\ fn_pc = "call"
  /\ fn_in \in StageMappings
  /\ fn_out = << >>

\* stage = self._get_failed_stage(results)
Call_get_failed_stage ==
  /\ fn_pc = "call"
  /\ fn_out' = _get_failed_stage(fn_in)
  /\ fn_pc' = "done"
  /\ UNCHANGED << fn_in, runVars >>

SpecGetFailedStage ==
  InitGetFailedStage /\ [][Call_get_failed_stage]_vars

(* ---------------------------------------------------------------------- *)
(* C11..C20                                                                *)
(* ---------------------------------------------------------------------- *)

\* C11: when stage k (1..5) raises, the Run has exactly k stage entries,
\* the k-th entry has status 'error' with the failure message, and the
\* stage named in the error notification is that stage's name.
C11_FailedStageRecorded ==
  \A k \in 1..5 :
    (pc = "raised" /\ FailedStage = k) =>
      /\ Len(stages) = k
      /\ stages[k].name = StageNames[k]
      /\ stages[k].status = "error"
      /\ stages[k].error = exc.msg
      /\ (persisted # NoRecord => Len(persisted.stages) = k)
      /\ (send_email => errorNotifications[1].stage = StageNames[k])

\* C12: _get_failed_stage returns the name of the first entry, in insertion
\* order, whose status is 'error', and 'Unknown' when no entry has status
\* 'error' (the empty mapping included).
C12_FirstErrorStage ==
  fn_pc = "done" =>
    /\ ((\A i \in 1..Len(fn_in) : fn_in[i].status # "error")
          => fn_out = "Unknown")
    /\ \A i \in 1..Len(fn_in) :
         ( /\ fn_in[i].status = "error"
           /\ \A j \in 1..(i - 1) : fn_in[j].status # "error" )
         => fn_out = fn_in[i].name

C12_Witness ==
  /\ fn_pc = "done"
  /\ Len(fn_in) = 4
  /\ fn_in[1].status = "success"
  /\ fn_in[2].status = "error"
  /\ fn_in[4].status = "error"
  /\ fn_out = "seo_optimization"

\* number of times _save_results has been called
SaveCount == Cardinality({i \in 1..Len(calls) : calls[i] = "_save_results"})

\* C13: the error notification is sent only when send_email is true and the
\* run is terminating in error (never with send_email false, never on a run
\* that returns); whatever the notification does (false, raise), the
\* exception that reaches the caller is the run's original one.
C13_ErrorNotificationTrigger ==
  /\ (errorNotifications # << >> =>
        /\ send_email
        /\ Len(errorNotifications) = 1
        /\ status = "error"
        /\ exc # NoExc
        /\ InExceptPath
        /\ errorNotifications[1].error_message = str(exc))
  /\ (~send_email => errorNotifications = << >>)
  /\ (pc = "returned" => errorNotifications = << >>)
  /\ (pc = "raised" =>
        /\ raisedExc = exc
        /\ (send_email <=> Len(errorNotifications) = 1))

C13_Witness ==
  /\ pc = "raised"
  /\ send_email
  /\ Len(errorNotifications) = 1
  /\ errorNotifications[1].outcome = Return(FALSE)
  /\ raisedExc = exc
  /\ raisedExc.origin = "create_video"

\* C14: in every run, on the success path and on the error path alike,
\* _save_results is called exactly once, and only after the status has
\* become terminal.
C14_SavedOnceWhenTerminal ==
  /\ SaveCount <= 1
  /\ (Terminal => SaveCount = 1)
  /\ (SaveCount = 1 => status \in {"success", "error"})
  /\ (persisted # NoRecord =>
        /\ persisted.status \in {"success", "error"}
        /\ SaveCount = 1)

C14_Witness ==
  /\ pc = "raised"
  /\ SaveCount = 1
  /\ calls[Len(calls)] = "_save_results"
  /\ persisted # NoRecord
  /\ persisted.status = "error"

\* the stage (1..7) a collaborator call belongs to, 0 for _save_results and
\* the error notification
StageOfAnyCall(c) ==
  CASE c = "upload_video" -> 6
    [] c = "send_success_notification" -> 7
    [] OTHER -> StageOfCall(c)

\* the position of a stage name in the fixed sequence
StageIndex(name) == CHOOSE k \in 1..7 : StageNames[k] = name

\* C15: throughout every run the entries of stages are in the order in which
\* the stages were executed, each stage and each collaborator is attempted
\* at most once, and an entry once written is never changed or removed.
C15_StagesAppendOnlyInOrder ==
  /\ [](/\ \A i, j \in 1..Len(stages) :
             i < j => StageIndex(stages[i].name) < StageIndex(stages[j].name)
        /\ \A i, j \in 1..Len(calls) : i < j => calls[i] # calls[j]
        /\ \A i, j \in 1..Len(calls) :
             (i < j /\ StageOfAnyCall(calls[i]) # 0
                    /\ StageOfAnyCall(calls[j]) # 0)
             => StageOfAnyCall(calls[i]) <= StageOfAnyCall(calls[j])
        /\ \A i \in 1..Len(stages) :
             stages[i].status # "skipped" =>
               \E c \in 1..Len(calls) :
                 StageOfAnyCall(calls[c]) = StageIndex(stages[i].name))
  /\ [][\/ stages' = stages
        \/ /\ Len(stages') = Len(stages) + 1
           /\ SubSeq(stages', 1, Len(stages)) = stages]_vars

C15_Witness ==
  /\ pc = "returned"
  /\ Len(stages) = 7
  /\ stages[6].status = "success"
  /\ Len(calls) = 12

\* C16: in every reachable state of a Run, the error field is present if
\* and only if the status is 'error', and when present it is the message of
\* the exception that made the run fail.
C16_ErrorIffStatusError ==
  /\ (error # NoVal <=> status = "error")
  /\ (error # NoVal => exc # NoExc /\ error = exc.msg)

C16_Witness ==
  /\ pc = "error_save"
  /\ status = "error"
  /\ FailedStage = 1
  /\ error = exc.msg

\* C17: end_time and duration are never set while the status is 'running',
\* and both are set once the Run has made its terminal transition, whether
\* to 'success' or to 'error'.
C17_EndTimeAndDurationOnTerminal ==
  /\ (status = "running" => ~end_time /\ ~duration_seconds)
  /\ (status \in {"success", "error"} => end_time /\ duration_seconds)

(* ---------------------------------------------------------------------- *)
(* Strings and dictionaries of the helper functions                        *)
(* ---------------------------------------------------------------------- *)

\* A string is the sequence of its characters; a dictionary is a function
\* whose domain is the set of its keys.

EmptyDict == [k \in {} |-> << >>]

\* {key: value} when present, {} otherwise
Item(key, present, value) == IF present THEN key :> value ELSE EmptyDict

\* d.get(key, default)
Get(d, key, default) == IF key \in DOMAIN d THEN d[key] ELSE default

\* sep.join(parts)
RECURSIVE Join(_, _)
Join(parts, sep) ==
  IF Len(parts) = 0 THEN << >>
  ELSE IF Len(parts) = 1 THEN parts[1]
  ELSE parts[1] \o sep \o Join(Tail(parts), sep)

(* ---------------------------------------------------------------------- *)
(* ContentGenerator.format_script_for_tts                                  *)
(* ---------------------------------------------------------------------- *)

\* most sections in main_content
MaxSections == 2

\* "\n\n"
Pause == << "\n", "\n" >>

\* the values a text field takes: absent, empty, or the given text
FieldChoices(text) ==
  { [present |-> FALSE, value |-> << >>],
    [present |-> TRUE, value |-> << >>],
    [present |-> TRUE, value |-> text] }

\* a section of main_content: its content is absent, empty, "s" or "t"
Sections ==
  { Item("section_title", TRUE, << "T" >>) @@ Item("content", c.present, c.value) :
      c \in FieldChoices(<< "s" >>) \cup FieldChoices(<< "t" >>) }

SectionLists == UNION { [1..n -> Sections] : n \in 0..MaxSections }

\* the script payloads format_script_for_tts is applied to
ScriptDatas ==
  { Item("topic", TRUE, << "x" >>)
      @@ Item("hook", h.present, h.value)
      @@ Item("introduction", i.present, i.value)
      @@ Item("main_content", m.present, m.value)
      @@ Item("conclusion", c.present, c.value) :
      h \in FieldChoices(<< "h" >>), i \in FieldChoices(<< "i" >>),
      m \in { [present |-> FALSE, value |-> << >>] }
              \cup { [present |-> TRUE, value |-> l] : l \in SectionLists },
      c \in FieldChoices(<< "c" >>) }

\* lines 120-129: the list `parts`
ScriptParts(script_data) ==
  << Get(script_data, "hook", << >>),
     Get(script_data, "introduction", << >>) >>
    \o [ i \in 1..Len(Get(script_data, "main_content", << >>)) |->
           Get(Get(script_data, "main_content", << >>)[i], "content", << >>) ]
    \o << Get(script_data, "conclusion", << >>) >>

\* format_script_for_tts: "\n\n".join(parts)
format_script_for_tts(script_data) == Join(ScriptParts(script_data), Pause)

InitFormatScript ==
  /\ RunIdle
  /\ fn_pc = "call"
  /\ fn_in \in ScriptDatas
  /\ fn_out = << >>

\* text = self.content_gen.format_script_for_tts(script_data)
Call_format_script_for_tts ==
  /\ fn_pc = "call"
  /\ fn_out' = format_script_for_tts(fn_in)
  /\ fn_pc' = "done"
  /\ UNCHANGED << fn_in, runVars >>

SpecFormatScript ==
  InitFormatScript /\ [][Call_format_script_for_tts]_vars

\* the non-empty fields of a script payload, in the order hook,
\* introduction, section contents, conclusion
NonEmptyFields(script_data) ==
  SelectSeq(ScriptParts(script_data), LAMBDA t : t # << >>)

\* C18: the output of format_script_for_tts is exactly the non-empty fields
\* among hook, introduction, each section's content (in list order) and
\* conclusion, joined by blank-line separators: an empty or absent field
\* adds nothing, so there is no leading, trailing or doubled separator.
C18_OnlyNonEmptyFieldsJoined ==
  fn_pc = "done" => fn_out = Join(NonEmptyFields(fn_in), Pause)

(* ---------------------------------------------------------------------- *)
(* VideoPipeline._create_thumbnail: the subtitle                           *)
(* ---------------------------------------------------------------------- *)

\* longest title handed to the subtitle derivation
MaxTitleChars == 8

\* the characters of those titles; " " is the only whitespace among them
TitleAlphabet == {"a", "b", " "}

IsSpace(c) == c = " "

Titles == UNION { [1..n -> TitleAlphabet] : n \in 0..MaxTitleChars }

\* metadata with a title, and metadata without the key
TitledMetadatas ==
  { Item("title", FALSE, << >>) }
    \cup { Item("title", TRUE, t) : t \in Titles }

\* str.split() with no argument: scan the characters, cut at every run of
\* whitespace, never produce an empty token
RECURSIVE SplitFrom(_, _, _, _)
SplitFrom(text, i, cur, acc) ==
  IF i > Len(text)
    THEN (IF cur = << >> THEN acc ELSE Append(acc, cur))
  ELSE IF IsSpace(text[i])
    THEN SplitFrom(text, i + 1, << >>,
                   IF cur = << >> THEN acc ELSE Append(acc, cur))
  ELSE SplitFrom(text, i + 1, Append(cur, text[i]), acc)

split(text) == SplitFrom(text, 1, << >>, << >>)

\* words[-3:]
LastThree(words) ==
  IF Len(words) <= 3 THEN words ELSE SubSeq(words, Len(words) - 2, Len(words))

\* None, and a string value
None == [present |-> FALSE, value |-> << >>]

Some(v) == [present |-> TRUE, value |-> v]

\* variant of subtitle: the test is `len(title_words) >= 3`
subtitle_from_three_words(metadata) ==
  IF Len(split(Get(metadata, "title", << >>))) >= 3
    THEN Some(Join(LastThree(split(Get(metadata, "title", << >>))), << " " >>))
    ELSE None

\* lines 173-174: title_words = metadata.get('title', '').split();
\* subtitle = ' '.join(title_words[-3:]) if len(title_words) > 3 else None
subtitle(metadata) ==
  IF Len(split(Get(metadata, "title", << >>))) > 3
    THEN Some(Join(LastThree(split(Get(metadata, "title", << >>))), << " " >>))
    ELSE None

InitSubtitle ==
  /\ RunIdle
  /\ fn_pc = "call"
  /\ fn_in \in TitledMetadatas
  /\ fn_out = << >>

\* the subtitle computed by _create_thumbnail
Call_subtitle ==
  /\ fn_pc = "call"
  /\ fn_out' = subtitle(fn_in)
  /\ fn_pc' = "done"
  /\ UNCHANGED << fn_in, runVars >>

SpecSubtitle == InitSubtitle /\ [][Call_subtitle]_vars

\* the positions of a text at which a token starts
TokenStarts(text) ==
  { i \in 1..Len(text) :
      /\ text[i] # " "
      /\ (i = 1 \/ text[i - 1] = " ") }

\* the position of the last character of a text that is not a space
LastLetter(text) ==
  CHOOSE i \in 1..Len(text) :
    /\ text[i] # " "
    /\ \A j \in (i + 1)..Len(text) : text[j] = " "

\* the position at which the third token from the end starts
ThirdLastStart(text) ==
  CHOOSE i \in TokenStarts(text) :
    Cardinality({ j \in TokenStarts(text) : j > i }) = 2

\* a text without the spaces that directly follow a space
SingleSpaced(text) ==
  SelectSeq([ i \in 1..Len(text) |->
                IF text[i] = " " /\ i > 1 /\ text[i - 1] = " "
                  THEN "" ELSE text[i] ],
            LAMBDA c : c # "")

\* C19: the subtitle is the last 3 whitespace-separated tokens of the title
\* joined by single spaces when the title has more than 3 tokens, and None
\* when it has 3 or fewer (a missing or empty title included).
C19_SubtitleLastThreeTokens ==
  fn_pc = "done" =>
    LET title == Get(fn_in, "title", << >>)
    IN  /\ (Cardinality(TokenStarts(title)) <= 3 => fn_out = None)
        /\ (Cardinality(TokenStarts(title)) > 3 =>
              /\ fn_out.present
              /\ Cardinality(TokenStarts(fn_out.value)) = 3
              /\ fn_out.value =
                   SingleSpaced(SubSeq(title, ThirdLastStart(title),
                                       LastLetter(title))))

C19_Witness ==
  /\ fn_pc = "done"
  /\ "title" \in DOMAIN fn_in
  /\ fn_in["title"] = << "a", " ", "b", " ", " ", "a", " ", "b" >>
  /\ fn_out = Some(<< "b", " ", "a", " ", "b" >>)

(* ---------------------------------------------------------------------- *)
(* SEOOptimizer._validate_metadata                                         *)
(* ---------------------------------------------------------------------- *)

\* limits of _validate_metadata
TitleLimit == 60

TitleKeep == 57

DescriptionLimit == 5000

DescriptionKeep == 4997

TagLimit == 30

HashtagLimit == 15

\* the longest title, description, tag list and hashtag list validated
LongestTitle == 70

LongestDescription == 5001

MostTags == 31

MostHashtags == 16

\* "..."
Dots == << ".", ".", "." >>

\* the n-character text abcabc...
Text(n) == [i \in 1..n |-> << "a", "b", "c" >>[((i - 1) % 3) + 1]]

\* text[:n] and list[:n]
Take(xs, n) == IF Len(xs) <= n THEN xs ELSE SubSeq(xs, 1, n)

\* text.startswith("#")
StartsWithHash(text) == Len(text) > 0 /\ text[1] = "#"

\* a list of n hashtags; which of them carry their '#' depends on the style
HashtagList(n, style) ==
  [i \in 1..n |->
     IF style = "all" \/ (style = "odd" /\ i % 2 = 1)
       THEN << "#" >> \o Text(i) ELSE Text(i)]

\* the metadata values _validate_metadata is applied to; every key may be
\* missing
RawMetadatas ==
  { Item("title", t.present, t.value)
      @@ Item("description", de.present, de.value)
      @@ Item("tags", tg.present, tg.value)
      @@ Item("hashtags", h.present, h.value)
      @@ Item("keywords", TRUE, << Text(2) >>) :
      t \in { None } \cup { Some(Text(n)) :
                 n \in {0, TitleKeep, TitleLimit, TitleLimit + 1,
                        LongestTitle} },
      de \in { None } \cup { Some(Text(n)) :
                 n \in {0, DescriptionLimit, LongestDescription} },
      tg \in { None } \cup { Some([i \in 1..n |-> Text(i)]) :
                 n \in {0, TagLimit, MostTags} },
      h \in { None } \cup { Some(HashtagList(n, style)) :
                 n \in {0, 1, HashtagLimit, MostHashtags},
                 style \in {"all", "none", "odd"} } }

\* variant of TruncateTitle: the title is cut at the limit before the dots
\* are added
TruncateTitle_cut_at_limit(title) == Take(title, TitleLimit) \o Dots

\* line 110: metadata["title"][:57] + "..."
TruncateTitle(title) == Take(title, TitleKeep) \o Dots

\* line 114: metadata["description"][:4997] + "..."
TruncateDescription(description) == Take(description, DescriptionKeep) \o Dots

\* lines 123-128: the first 15 hashtags, each with a leading '#'
CleanHashtags(hashtags) ==
  [i \in 1..Len(Take(hashtags, HashtagLimit)) |->
     IF StartsWithHash(hashtags[i]) THEN hashtags[i]
     ELSE << "#" >> \o hashtags[i]]

\* lines 109-110
ValidateTitle(m) ==
  IF Len(Get(m, "title", << >>)) > TitleLimit
    THEN ("title" :> TruncateTitle(m["title"])) @@ m ELSE m

\* lines 113-114
ValidateDescription(m) ==
  IF Len(Get(m, "description", << >>)) > DescriptionLimit
    THEN ("description" :> TruncateDescription(m["description"])) @@ m
    ELSE m

\* lines 117-119
ValidateTags(m) ==
  IF "tags" \in DOMAIN m
    THEN ("tags" :> Take(m["tags"], TagLimit)) @@ m ELSE m

\* lines 122-128
ValidateHashtags(m) ==
  IF "hashtags" \in DOMAIN m
    THEN ("hashtags" :> CleanHashtags(m["hashtags"])) @@ m ELSE m

_validate_metadata(metadata) ==
  ValidateHashtags(ValidateTags(ValidateDescription(ValidateTitle(metadata))))

InitValidateMetadata ==
  /\ RunIdle
  /\ fn_pc = "call"
  /\ fn_in \in RawMetadatas
  /\ fn_out = << >>

\* line 84: metadata = self._validate_metadata(metadata)
Call_validate_metadata ==
  /\ fn_pc = "call"
  /\ fn_out' = _validate_metadata(fn_in)
  /\ fn_pc' = "done"
  /\ UNCHANGED << fn_in, runVars >>

SpecValidateMetadata ==
  InitValidateMetadata /\ [][Call_validate_metadata]_vars

\* C20: _validate_metadata returns a title of at most 60 characters (a
\* longer one becomes its first 57 characters followed by '...', a shorter
\* one is unchanged), a description of at most 5000 characters, at most 30
\* tags (the first 30, in order) and at most 15 hashtags, each beginning
\* with '#' (one without '#' gets it prefixed, one with '#' is unchanged).
C20_ValidatedMetadataWithinLimits ==
  fn_pc = "done" =>
    /\ DOMAIN fn_out = DOMAIN fn_in
    /\ ("title" \in DOMAIN fn_in =>
          /\ Len(fn_out["title"]) <= 60
          /\ (Len(fn_in["title"]) <= 60 => fn_out["title"] = fn_in["title"])
          /\ (Len(fn_in["title"]) > 60 =>
                /\ Len(fn_out["title"]) = 60
                /\ \A i \in 1..57 : fn_out["title"][i] = fn_in["title"][i]
                /\ \A i \in 58..60 : fn_out["title"][i] = "."))
    /\ ("description" \in DOMAIN fn_in =>
          /\ Len(fn_out["description"]) <= 5000
          /\ (Len(fn_in["description"]) <= 5000 =>
                fn_out["description"] = fn_in["description"]))
    /\ ("tags" \in DOMAIN fn_in =>
          /\ Len(fn_out["tags"]) <= 30
          /\ (Len(fn_in["tags"]) <= 30 => Len(fn_out["tags"]) = Len(fn_in["tags"]))
          /\ (Len(fn_in["tags"]) > 30 => Len(fn_out["tags"]) = 30)
          /\ \A i \in 1..Len(fn_out["tags"]) :
               fn_out["tags"][i] = fn_in["tags"][i])
    /\ ("hashtags" \in DOMAIN fn_in =>
          /\ Len(fn_out["hashtags"]) <= 15
          /\ (Len(fn_in["hashtags"]) <= 15 =>
                Len(fn_out["hashtags"]) = Len(fn_in["hashtags"]))
          /\ \A i \in 1..Len(fn_out["hashtags"]) :
               /\ fn_out["hashtags"][i][1] = "#"
               /\ (fn_in["hashtags"][i][1] = "#" =>
                     fn_out["hashtags"][i] = fn_in["hashtags"][i])
               /\ (fn_in["hashtags"][i][1] # "#" =>
                     Tail(fn_out["hashtags"][i]) = fn_in["hashtags"][i]))

C20_Witness ==
  /\ fn_pc = "done"
  /\ DOMAIN fn_in = {"title", "description", "tags", "hashtags", "keywords"}
  /\ Len(fn_in["title"]) > 60 /\ Len(fn_out["title"]) = 60
  /\ Len(fn_in["description"]) > 5000 /\ Len(fn_out["description"]) = 5000
  /\ Len(fn_in["tags"]) > 30 /\ Len(fn_out["tags"]) = 30
  /\ Len(fn_in["hashtags"]) > 15 /\ Len(fn_out["hashtags"]) = 15
  /\ fn_in["hashtags"][2] = << "a", "b" >>
  /\ fn_out["hashtags"][2] = << "#", "a", "b" >>

(* ---------------------------------------------------------------------- *)
(* SEOOptimizer.generate_thumbnail_text                                    *)
(* ---------------------------------------------------------------------- *)

\* the characters str.strip() removes, and those strip('"\'') removes
Whitespace == {" ", "\n"}

Quotes == {"\"", "'"}

\* str.strip(chars): drop the leading and the trailing characters in chars
RECURSIVE LStrip(_, _)
LStrip(text, chars) ==
  IF text # << >> /\ Head(text) \in chars
    THEN LStrip(Tail(text), chars)
    ELSE text

RECURSIVE RStrip(_, _)
RStrip(text, chars) ==
  IF text # << >> /\ text[Len(text)] \in chars
    THEN RStrip(SubSeq(text, 1, Len(text) - 1), chars)
    ELSE text

Strip(text, chars) == RStrip(LStrip(text, chars), chars)

\* response.choices[0].message.content of the chat completion: a string,
\* possibly quoted and padded, or None
CompletionContents ==
  { Some(<< "a" >>),
    Some(<< " ", "\"", "a", " ", "b", "\"", "\n" >>),
    Some(<< "'", " ", "b", "'" >>),
    None }

\* outcomes of self.client.chat.completions.create(...)
CompletionOutcomes ==
  { Return(c) : c \in CompletionContents } \cup { Raise(m) : m \in Msgs }

\* NoCompletion: the content service was not called
NoCompletion == NoCall

\* the body of the try block (lines 151-160): the completion call, then
\* content.strip() and .strip('"\''); None.strip() raises AttributeError
ThumbnailTextFromService(completion) ==
  IF completion.kind = "raise" THEN Raise(completion.msg)
  ELSE IF ~completion.value.present THEN Raise(<<"msg", 0>>)
  ELSE Return(Strip(Strip(completion.value.value, Whitespace), Quotes))

\* words[:3] joined by " "
FirstThreeJoined(words) == Join(Take(words, 3), << " " >>)

\* variant of generate_thumbnail_text: the except clause logs and re-raises
generate_thumbnail_text_reraises(metadata, completion) ==
  LET title == Get(metadata, "title", << >>)
      words == split(title)
  IN  IF Len(words) <= 3
        THEN [result |-> Return(title), service |-> NoCompletion]
        ELSE [result |-> ThumbnailTextFromService(completion),
              service |-> completion]

\* generate_thumbnail_text (lines 132-163): the title itself when it has at
\* most 3 words; otherwise the stripped answer of the content service, and
\* on any exception of the try block (bare except) the first 3 words
generate_thumbnail_text(metadata, completion) ==
  LET title == Get(metadata, "title", << >>)
      words == split(title)
  IN  IF Len(words) <= 3
        THEN [result |-> Return(title), service |-> NoCompletion]
        ELSE [result |->
                IF ThumbnailTextFromService(completion).kind = "return"
                  THEN ThumbnailTextFromService(completion)
                  ELSE Return(FirstThreeJoined(words)),
              service |-> completion]

InitThumbnailText ==
  /\ RunIdle
  /\ fn_pc = "call"
  /\ fn_in \in [metadata : TitledMetadatas, completion : CompletionOutcomes]
  /\ fn_out = << >>

\* thumbnail_text = self.seo_optimizer.generate_thumbnail_text(metadata)
Call_generate_thumbnail_text ==
  /\ fn_pc = "call"
  /\ fn_out' = generate_thumbnail_text(fn_in.metadata, fn_in.completion)
  /\ fn_pc' = "done"
  /\ UNCHANGED << fn_in, runVars >>

SpecThumbnailText ==
  InitThumbnailText /\ [][Call_generate_thumbnail_text]_vars

\* the position of the last character of the third token of a text
ThirdTokenEnd(text) ==
  LET third == CHOOSE i \in TokenStarts(text) :
                 Cardinality({ j \in TokenStarts(text) : j < i }) = 2
  IN  CHOOSE e \in third..Len(text) :
        /\ \A j \in third..e : text[j] # " "
        /\ (e = Len(text) \/ text[e + 1] = " ")

\* the position at which the first token of a text starts
FirstTokenStart(text) ==
  CHOOSE i \in TokenStarts(text) : \A j \in TokenStarts(text) : i <= j

\* the content-service call of a generate_thumbnail_text call failed
CompletionFailed(completion) ==
  \/ completion.kind = "raise"
  \/ (completion.kind = "return" /\ completion.value = None)

(* ---------------------------------------------------------------------- *)
(* C21..C30                                                                *)
(* ---------------------------------------------------------------------- *)

\* C21: generate_thumbnail_text never raises; for a title of 3 or fewer
\* tokens it returns the title unchanged without calling the content
\* service, and for a longer title a failed content-service call yields the
\* first 3 title tokens joined by single spaces.
C21_ThumbnailTextBestEffort ==
  fn_pc = "done" =>
    LET title == Get(fn_in.metadata, "title", << >>)
    IN  /\ fn_out.result.kind = "return"
        /\ (Cardinality(TokenStarts(title)) <= 3 =>
              /\ fn_out.result.value = title
              /\ fn_out.service = NoCompletion)
        /\ (Cardinality(TokenStarts(title)) > 3
              /\ CompletionFailed(fn_in.completion) =>
              /\ fn_out.service = fn_in.completion
              /\ fn_out.result.value =
                   SingleSpaced(SubSeq(title, FirstTokenStart(title),
                                       ThirdTokenEnd(title))))

C21_Witness ==
  /\ fn_pc = "done"
  /\ "title" \in DOMAIN fn_in.metadata
  /\ fn_in.metadata["title"] = << "a", " ", " ", "b", " ", "a", " ", "b" >>
  /\ fn_in.completion.kind = "raise"
  /\ fn_out.result = Return(<< "a", " ", "b", " ", "a" >>)

\* C22: upload_video never raises: whatever authentication, media
\* preparation, video insert and thumbnail upload do, it returns a result
\* with status 'success' (and a video id) or 'error' (and a message).
C22_UploadVideoNeverRaises ==
  uploaderOutcome # NoCall =>
    /\ uploaderOutcome.kind = "return"
    /\ \/ /\ uploaderOutcome.value.status = "success"
          /\ uploaderOutcome.value.ref \in VideoIds
       \/ /\ uploaderOutcome.value.status = "error"
          /\ uploaderOutcome.value.error \in Msgs

\* every call of send_success_notification / send_error_notification made
\* so far, as the outcome of the call
NotificationOutcomes ==
  { successNotifications[i].outcome : i \in 1..Len(successNotifications) }
    \cup { errorNotifications[i].outcome : i \in 1..Len(errorNotifications) }

\* C23: send_success_notification and send_error_notification never raise
\* and return a boolean, which is false when the email configuration is
\* incomplete.
C23_NotifierNeverRaises ==
  \A out \in NotificationOutcomes :
    /\ out.kind = "return"
    /\ out.value \in BOOLEAN
    /\ (~email_configured => out.value = FALSE)

\* C24: once _save_results has been called on the Run record, no field of
\* the Run (status, error, end_time, duration_seconds, stages) is written
\* again before run returns or raises.
C24_ImmutableOncePersisted ==
  [][SaveCount >= 1 => Results' = Results]_vars

C24_Witness ==
  /\ pc = "raised"
  /\ SaveCount = 1
  /\ persisted = Results
  /\ persisted.status = "error"

\* the collaborator calls made by the current step
NewCalls == { calls'[i] : i \in (Len(calls) + 1)..Len(calls') }

\* the first n stages all have an entry, under their own key, with status
\* 'success'
StagesSucceededUpTo(n) ==
  /\ Len(stages) >= n
  /\ \A i \in 1..n :
       /\ stages[i].name = StageNames[i]
       /\ stages[i].status = "success"

\* C25: stages run strictly in the fixed order: whenever a collaborator of
\* stage k is invoked, every stage before k already has a stage entry with
\* status 'success', and at every point the keys of stages form a prefix of
\* the fixed sequence of stage names.
C25_StrictStageOrder ==
  /\ [](/\ Len(stages) <= Len(StageNames)
        /\ \A i \in 1..Len(stages) : stages[i].name = StageNames[i])
  /\ [][\A c \in NewCalls :
          StageOfAnyCall(c) # 0 => StagesSucceededUpTo(StageOfAnyCall(c) - 1)]_vars

C25_Witness ==
  /\ pc = "complete"
  /\ calls[Len(calls)] = "send_success_notification"
  /\ Len(stages) = 7
  /\ \A i \in 1..7 : stages[i].status = "success"

\* the stage names reported by the except clause of run() so far
ReportedFailedStages ==
  { errorNotifications[i].stage : i \in 1..Len(errorNotifications) }

C27_NoNotificationOnPublishFailure ==
  UploaderFailed =>
    /\ StagesSucceededUpTo(5)
    /\ successNotifications = << >>
    /\ errorNotifications = << >>
    /\ \A i \in 1..Len(calls) :
         calls[i] \notin {"send_success_notification",
                          "send_error_notification"}

C27_Witness ==
  /\ pc = "returned"
  /\ send_email
  /\ email_configured
  /\ uploaderOutcome.kind = "return"
  /\ uploaderOutcome.value.status = "error"
  /\ successNotifications = << >>
  /\ errorNotifications = << >>

\* C28: whenever the notify stage is attempted, the email_notification entry
\* is recorded with status 'success', also when the notifier returned false
\* or raised: a recorded notify status of 'success' does not imply that the
\* email was delivered.
C28_NotifyEntryAlwaysSuccess ==
  /\ (Len(successNotifications) > 0 =>
        /\ HasStage("email_notification")
        /\ EntryOf("email_notification").status = "success")
  /\ (HasStage("email_notification") =>
        /\ Len(successNotifications) = 1
        /\ EntryOf("email_notification") = SuccessEntry(StageNames[7], NoVal))

C28_Witness ==
  /\ pc = "returned"
  /\ ~email_configured
  /\ Len(successNotifications) = 1
  /\ successNotifications[1].outcome = Return(FALSE)
  /\ returned.stages[7].status = "success"

\* _save_results was called and the record is not in storage
WriteFailed == SaveCount >= 1 /\ persisted = NoRecord

\* C29: a failure to write the Run record is swallowed inside _save_results
\* and never changes the outcome of run: on the success path run still
\* returns the Run with status 'success', on the error path the original
\* stage exception is still the one raised.
C29_SaveFailureSwallowed ==
  WriteFailed =>
    /\ SaveCount = 1
    /\ pc \in {"return", "returned", "reraise", "raised"}
    /\ (pc \in {"return", "returned"} => status = "success" /\ exc = NoExc)
    /\ (pc \in {"reraise", "raised"} => status = "error" /\ FailedStage \in 1..5)
    /\ (pc = "returned" => returned.status = "success" /\ raisedExc = NoExc)
    /\ (pc = "raised" => raisedExc = exc /\ returned = NoRecord)

C29_Witness ==
  /\ pc = "returned"
  /\ WriteFailed
  /\ returned.status = "success"
  /\ Len(returned.stages) = 7

\* the calls that persist the payload of a content stage
PayloadSaves == {"save_script", "save_metadata"}

\* C30: a storage failure while persisting a content stage's own payload
\* (save_script in stage 1, save_metadata in stage 2), after the payload was
\* generated, is a failure of that stage: the run aborts, no entry for that
\* stage or any later stage is written, no later collaborator is invoked,
\* and the status becomes 'error' with the storage failure's message.
C30_PayloadSaveFailureAbortsStage ==
  exc.origin \in PayloadSaves =>
    LET k == StageOfCall(exc.origin)
    IN  /\ InExceptPath
        /\ Len(stages) = k - 1
        /\ StagesSucceededUpTo(k - 1)
        /\ \E i \in 1..Len(calls) :
             /\ calls[i] = exc.origin
             /\ i > 1
             /\ calls[i - 1] \in {"generate_script", "generate_thumbnail_text"}
             /\ \A j \in (i + 1)..Len(calls) : StageOfAnyCall(calls[j]) = 0
        /\ (pc # "except" => status = "error" /\ error = exc.msg)
        /\ (pc = "raised" => raisedExc = exc /\ returned = NoRecord)

C30_Witness ==
  /\ pc = "raised"
  /\ exc.origin = "save_metadata"
  /\ Len(stages) = 1
  /\ status = "error"
  /\ error = exc.msg
  /\ calls[Len(calls)] = "_save_results"

====
